---- MODULE Spec2Model ----
(***************************************************************************)
(* Booking lifecycle and capacity accounting of the FarmVenture backend.   *)
(* The relational store is modelled by two tables (activities, bookings)   *)
(* with autoincrement keys; every request handler of                       *)
(* controllers/bookings.py and controllers/activities.py is an action.     *)
(* Spec runs the handlers one at a time (each handler is one transaction); *)
(* SpecConc splits the booking handlers into their SELECT statements and   *)
(* their COMMIT so that requests served by different workers interleave.   *)
(***************************************************************************)
EXTENDS Integers, FiniteSets, Sequences, TLC

\* ---------------------------------------------------------------- bounds
MaxActs == 1
MaxBookings == 2
MaxCap == 2
MaxTickets == 2
MaxTime == 2
MaxRequests == 2
MaxWide == 3
DayLen == 2

\* ---------------------------------------------------------------- users
ADMIN == "admin"
CUSTOMER == "customer"

Customers == {"u1", "u2"}
Admins == {"root"}
Users == Customers \cup Admins

\* the server processes that serve requests against the one store
Workers == {"w1", "w2"}

role(u) == IF u \in Admins THEN ADMIN ELSE CUSTOMER

\* ---------------------------------------------------------------- errors
OK == "ok"
NotFound == "NotFound"
Forbidden == "Forbidden"
InvalidInput == "InvalidInput"
CapacityExceeded == "CapacityExceeded"
TemporalConstraint == "TemporalConstraint"
Conflict == "Conflict"
StorageFailure == "StorageFailure"
PASS == "pass"

\* ---------------------------------------------------------------- time
\* A datetime is a wall-clock reading plus its tzinfo; DateTime columns
\* hold naive values, datetime.now(timezone.utc) is aware.
NAIVE == "naive"
UTC == "utc"

ActIds == 1..MaxActs
BookIds == 1..MaxBookings
Instants == 0..MaxTime

naive(t) == [wall |-> t, tzinfo |-> NAIVE]
utcnow(t) == [wall |-> t, tzinfo |-> UTC]

ensure_aware_datetime(dt) ==
    IF dt.tzinfo = NAIVE THEN [dt EXCEPT !.tzinfo = UTC] ELSE dt

date(dt) == dt.wall \div DayLen

\* before that also holds of equal instants (<= for <)
before_le(a, b) == a.wall <= b.wall

before(a, b) == a.wall < b.wall

PAST == "past"
TODAY == "today"
UPCOMING == "upcoming"
BookingStatus == {PAST, TODAY, UPCOMING}

\* update_status comparing the instants, not their calendar dates
update_status_instant(activity_date, t) ==
    LET now_ == utcnow(t)
        activity_date_aware ==
            IF activity_date.tzinfo = NAIVE
            THEN [activity_date EXCEPT !.tzinfo = UTC]
            ELSE activity_date
    IN  IF activity_date_aware.wall < now_.wall THEN PAST
        ELSE IF activity_date_aware.wall = now_.wall THEN TODAY
        ELSE UPCOMING

\* update_status with the outer branches exchanged
update_status_swapped(activity_date, t) ==
    LET now_ == utcnow(t)
        activity_date_aware ==
            IF activity_date.tzinfo = NAIVE
            THEN [activity_date EXCEPT !.tzinfo = UTC]
            ELSE activity_date
    IN  IF date(activity_date_aware) < date(now_) THEN UPCOMING
        ELSE IF date(activity_date_aware) = date(now_) THEN TODAY
        ELSE PAST

\* BookingModel.update_status: the status of a booking of an activity
\* dated activity_date when the clock reads t.
update_status(activity_date, t) ==
    LET now_ == utcnow(t)
        activity_date_aware ==
            IF activity_date.tzinfo = NAIVE
            THEN [activity_date EXCEPT !.tzinfo = UTC]
            ELSE activity_date
    IN  IF date(activity_date_aware) < date(now_) THEN PAST
        ELSE IF date(activity_date_aware) = date(now_) THEN TODAY
        ELSE UPCOMING

\* the status create_booking computes inline
initial_status(activity_date_aware, now_) ==
    IF date(activity_date_aware) < date(now_) THEN PAST
    ELSE IF date(activity_date_aware) = date(now_) THEN TODAY
    ELSE UPCOMING

\* ---------------------------------------------------------------- state
VARIABLES
    activities,   \* table activities: id -> row
    bookings,     \* table bookings: id -> row
    nextActId,    \* autoincrement of activities.id
    nextBookId,   \* autoincrement of bookings.id
    clock,        \* the wall clock (UTC)
    last,         \* the last response sent: request and result
    worker        \* per worker: its session, its last response, its count

vars == <<activities, bookings, nextActId, nextBookId, clock, last, worker>>

\* Python None in a request field or a session slot
NONE == -1

EmptyTable == [x \in {} |-> NONE]

\* a request as the handler receives it; fields_set and status are those of
\* a BookingUpdate body (fields_set: the fields the body carries), status
\* also the status_filter of a list request.  A response is the request
\* with its result; rows are the ids of the bookings a read returns, stats
\* the five counts of BookingStats and available the answer of the
\* availability check.
Request(op, u, a, b, n) ==
    [op |-> op, user |-> u, act |-> a, bid |-> b, n |-> n,
     fields_set |-> {}, status |-> "-", result |-> PASS,
     rows |-> {}, stats |-> <<>>, available |-> FALSE]

Response(req, res) == [req EXCEPT !.result = res]

NoRequest == Request("-", "-", NONE, NONE, NONE)

\* a worker's SQLAlchemy session between its SELECTs and its COMMIT: the
\* current_capacity it loaded, the attribute values it will flush and the
\* set of dirty attributes
Idle == [pc |-> "idle", req |-> NoRequest, loaded |-> NONE,
         current_capacity |-> NONE, tickets_number |-> NONE, status |-> "-",
         dirty |-> {}]

\* a worker: its session, the response it sent last and how many it sent
Worker(s, reply, served) == [session |-> s, reply |-> reply, served |-> served]

Init ==
    /\ activities = EmptyTable
    /\ bookings = EmptyTable
    /\ nextActId = 1
    /\ nextBookId = 1
    /\ clock = 0
    /\ last = Response(NoRequest, OK)
    /\ worker = [w \in Workers |-> Worker(Idle, Response(NoRequest, OK), 0)]

\* ---------------------------------------------------------------- helpers
RECURSIVE SumTickets(_, _)
SumTickets(books, ids) ==
    IF ids = {} THEN 0
    ELSE LET b == CHOOSE x \in ids : TRUE
         IN  books[b].tickets_number + SumTickets(books, ids \ {b})

BookingsOf(books, a) == {b \in DOMAIN books : books[b].activity_id = a}

BookingsOfUser(books, u, a) ==
    {b \in DOMAIN books : books[b].user_id = u /\ books[b].activity_id = a}

Put(f, k, v) == [x \in DOMAIN f \cup {k} |-> IF x = k THEN v ELSE f[x]]
Drop(f, ks) == [x \in DOMAIN f \ ks |-> f[x]]

\* ---------------------------------------------------------------- create_booking
\* BookingCreate: tickets_number has ge=1, checked before the handler runs
BookingCreate_valid(n) == n >= 1

\* create_booking_checks with the capacity check off by one (>= for >)
create_booking_checks_ge(u, a, n, acts, books, t) ==
    IF ~BookingCreate_valid(n) THEN [result |-> InvalidInput]
    ELSE IF role(u) = ADMIN THEN [result |-> Forbidden]
    ELSE IF a \notin DOMAIN acts THEN [result |-> NotFound]
    ELSE LET activity == acts[a]
             now_ == utcnow(t)
             activity_date_aware == ensure_aware_datetime(activity.date_time)
             spots_available == activity.max_capacity - activity.current_capacity
         IN  IF before(activity_date_aware, now_) THEN [result |-> TemporalConstraint]
             ELSE IF n < 1 THEN [result |-> InvalidInput]
             ELSE IF n >= spots_available THEN [result |-> CapacityExceeded]
             ELSE IF BookingsOfUser(books, u, a) # {} THEN [result |-> Conflict]
             ELSE [result |-> PASS,
                   loaded |-> activity.current_capacity,
                   current_capacity |-> activity.current_capacity + n,
                   status |-> initial_status(activity_date_aware, now_)]

\* create_booking_checks without the check of the activity's date
create_booking_checks_nopast(u, a, n, acts, books, t) ==
    IF ~BookingCreate_valid(n) THEN [result |-> InvalidInput]
    ELSE IF role(u) = ADMIN THEN [result |-> Forbidden]
    ELSE IF a \notin DOMAIN acts THEN [result |-> NotFound]
    ELSE LET activity == acts[a]
             now_ == utcnow(t)
             activity_date_aware == ensure_aware_datetime(activity.date_time)
             spots_available == activity.max_capacity - activity.current_capacity
         IN  IF n < 1 THEN [result |-> InvalidInput]
             ELSE IF n > spots_available THEN [result |-> CapacityExceeded]
             ELSE IF BookingsOfUser(books, u, a) # {} THEN [result |-> Conflict]
             ELSE [result |-> PASS,
                   loaded |-> activity.current_capacity,
                   current_capacity |-> activity.current_capacity + n,
                   status |-> initial_status(activity_date_aware, now_)]

\* create_booking up to the commit: the checks in the order of the handler.
\* Returns the rejection, or PASS with what the session holds for the commit.
create_booking_checks(u, a, n, acts, books, t) ==
    IF ~BookingCreate_valid(n) THEN [result |-> InvalidInput]
    ELSE IF role(u) = ADMIN THEN [result |-> Forbidden]
    ELSE IF a \notin DOMAIN acts THEN [result |-> NotFound]
    ELSE LET activity == acts[a]
             now_ == utcnow(t)
             activity_date_aware == ensure_aware_datetime(activity.date_time)
             spots_available == activity.max_capacity - activity.current_capacity
         IN  IF before(activity_date_aware, now_) THEN [result |-> TemporalConstraint]
             ELSE IF n < 1 THEN [result |-> InvalidInput]
             ELSE IF n > spots_available THEN [result |-> CapacityExceeded]
             ELSE IF BookingsOfUser(books, u, a) # {} THEN [result |-> Conflict]
             ELSE [result |-> PASS,
                   loaded |-> activity.current_capacity,
                   current_capacity |-> activity.current_capacity + n,
                   status |-> initial_status(activity_date_aware, now_)]

CreateSession(req, c) ==
    [Idle EXCEPT !.pc = "create_commit", !.req = req, !.loaded = c.loaded,
                 !.current_capacity = c.current_capacity,
                 !.tickets_number = req.n, !.status = c.status,
                 !.dirty = {"current_capacity"}]

\* create_booking_commit counting one spot per booking, not one per ticket
create_booking_commit_plus1(s, acts, books, id, commit_ok) ==
    IF ~commit_ok \/ s.req.act \notin DOMAIN acts
    THEN [result |-> StorageFailure, activities |-> acts, bookings |-> books]
    ELSE [result |-> OK,
          activities |->
              [acts EXCEPT ![s.req.act].current_capacity = s.loaded + 1],
          bookings |->
              Put(books, id,
                  [user_id |-> s.req.user, activity_id |-> s.req.act,
                   tickets_number |-> s.tickets_number, status |-> s.status])]

\* db.commit() of create_booking: UPDATE activities SET current_capacity,
\* INSERT INTO bookings.  The UPDATE of a row that is gone raises, and so
\* may the store; the handler then rolls back.
create_booking_commit(s, acts, books, id, commit_ok) ==
    IF ~commit_ok \/ s.req.act \notin DOMAIN acts
    THEN [result |-> StorageFailure, activities |-> acts, bookings |-> books]
    ELSE [result |-> OK,
          activities |->
              [acts EXCEPT ![s.req.act].current_capacity = s.current_capacity],
          bookings |->
              Put(books, id,
                  [user_id |-> s.req.user, activity_id |-> s.req.act,
                   tickets_number |-> s.tickets_number, status |-> s.status])]

\* POST /api/bookings served as one transaction
create_booking(u, a, n) ==
    LET req == Request("create", u, a, NONE, n)
        c == create_booking_checks(u, a, n, activities, bookings, clock)
    IN  /\ IF c.result # PASS
           THEN /\ last' = Response(req, c.result)
                /\ UNCHANGED <<activities, bookings, nextBookId>>
           ELSE \E commit_ok \in BOOLEAN :
                LET r == create_booking_commit(CreateSession(req, c), activities,
                                               bookings, nextBookId, commit_ok)
                IN  /\ nextBookId <= MaxBookings
                    /\ activities' = r.activities
                    /\ bookings' = r.bookings
                    /\ nextBookId' = IF r.result = OK THEN nextBookId + 1 ELSE nextBookId
                    /\ last' = Response([req EXCEPT !.bid =
                                            IF r.result = OK THEN nextBookId ELSE NONE],
                                        r.result)
        /\ UNCHANGED <<nextActId, clock, worker>>

\* ---------------------------------------------------------------- update_booking
\* the bodies a PUT may carry: tickets_number and status are optional, a
\* field may be absent or (tickets_number) given as null
WellFormedBody(body) ==
    /\ (body.tickets_number # NONE) => ("tickets_number" \in body.fields_set)
    /\ (body.status # "-") <=> ("status" \in body.fields_set)

\* the bodies of the PUT requests: every tickets_number alone, status alone,
\* and status together with a tickets_number
BookingUpdateBodies ==
    {body \in [tickets_number : {NONE} \cup (0..MaxTickets), status : {"-", PAST},
               fields_set : SUBSET {"tickets_number", "status"}] :
        /\ WellFormedBody(body)
        /\ (body.status # "-") => body.tickets_number \in {NONE, MaxTickets}
        /\ (body.status # "-" /\ body.tickets_number = NONE)
               => body.fields_set = {"status"}}

\* BookingUpdate: tickets_number, when given, has ge=1
BookingUpdate_valid(body) == body.tickets_number = NONE \/ body.tickets_number >= 1

UpdateRequest(u, b, body) ==
    [Request("update", u, NONE, b, body.tickets_number)
        EXCEPT !.fields_set = body.fields_set, !.status = body.status]

\* update_booking_checks without the call of booking.update_status()
update_booking_checks_keep(u, b, body, acts, books, t) ==
    IF ~BookingUpdate_valid(body) THEN [result |-> InvalidInput]
    ELSE IF b \notin DOMAIN books THEN [result |-> NotFound]
    ELSE IF role(u) # ADMIN /\ books[b].user_id # u THEN [result |-> Forbidden]
    ELSE IF books[b].activity_id \notin DOMAIN acts THEN [result |-> NotFound]
    ELSE LET booking == books[b]
             activity == acts[booking.activity_id]
             activity_date_aware == ensure_aware_datetime(activity.date_time)
             given == body.tickets_number # NONE
             ticket_diff == body.tickets_number - booking.tickets_number
             spots_available ==
                 activity.max_capacity - activity.current_capacity
                     + booking.tickets_number
             tickets_ == IF "tickets_number" \in body.fields_set
                         THEN body.tickets_number ELSE booking.tickets_number
             assigned == IF "status" \in body.fields_set
                         THEN body.status ELSE booking.status
             status_ == [booking EXCEPT !.status = assigned].status
             current_capacity_ ==
                 IF given /\ ticket_diff # 0
                 THEN activity.current_capacity + ticket_diff
                 ELSE activity.current_capacity
         IN  IF before(activity_date_aware, utcnow(t)) THEN [result |-> TemporalConstraint]
             ELSE IF given /\ body.tickets_number < 1 THEN [result |-> InvalidInput]
             ELSE IF given /\ ticket_diff # 0 /\ body.tickets_number > spots_available
             THEN [result |-> CapacityExceeded]
             ELSE [result |-> PASS,
                   act |-> booking.activity_id,
                   loaded |-> activity.current_capacity,
                   current_capacity |-> current_capacity_,
                   tickets_number |-> tickets_,
                   status |-> status_,
                   dirty |->
                       {x \in {"current_capacity"} :
                            current_capacity_ # activity.current_capacity}
                       \cup {x \in {"tickets_number"} : tickets_ # booking.tickets_number}
                       \cup {x \in {"status"} : status_ # booking.status}]

\* update_booking up to the commit.  PASS carries the attribute values of
\* the session and the attributes that differ from the rows as loaded.
\* The setattr loop assigns the fields of the body, status included, and
\* booking.update_status() then overwrites status.
update_booking_checks(u, b, body, acts, books, t) ==
    IF ~BookingUpdate_valid(body) THEN [result |-> InvalidInput]
    ELSE IF b \notin DOMAIN books THEN [result |-> NotFound]
    ELSE IF role(u) # ADMIN /\ books[b].user_id # u THEN [result |-> Forbidden]
    ELSE IF books[b].activity_id \notin DOMAIN acts THEN [result |-> NotFound]
    ELSE LET booking == books[b]
             activity == acts[booking.activity_id]
             activity_date_aware == ensure_aware_datetime(activity.date_time)
             given == body.tickets_number # NONE
             ticket_diff == body.tickets_number - booking.tickets_number
             spots_available ==
                 activity.max_capacity - activity.current_capacity
                     + booking.tickets_number
             tickets_ == IF "tickets_number" \in body.fields_set
                         THEN body.tickets_number ELSE booking.tickets_number
             assigned == IF "status" \in body.fields_set
                         THEN body.status ELSE booking.status
             status_ == [[booking EXCEPT !.status = assigned]
                            EXCEPT !.status = update_status(activity.date_time, t)].status
             current_capacity_ ==
                 IF given /\ ticket_diff # 0
                 THEN activity.current_capacity + ticket_diff
                 ELSE activity.current_capacity
         IN  IF before(activity_date_aware, utcnow(t)) THEN [result |-> TemporalConstraint]
             ELSE IF given /\ body.tickets_number < 1 THEN [result |-> InvalidInput]
             ELSE IF given /\ ticket_diff # 0 /\ body.tickets_number > spots_available
             THEN [result |-> CapacityExceeded]
             ELSE [result |-> PASS,
                   act |-> booking.activity_id,
                   loaded |-> activity.current_capacity,
                   current_capacity |-> current_capacity_,
                   tickets_number |-> tickets_,
                   status |-> status_,
                   dirty |->
                       {x \in {"current_capacity"} :
                            current_capacity_ # activity.current_capacity}
                       \cup {x \in {"tickets_number"} : tickets_ # booking.tickets_number}
                       \cup {x \in {"status"} : status_ # booking.status}]

UpdateSession(req, c) ==
    [Idle EXCEPT !.pc = "update_commit", !.req = [req EXCEPT !.act = c.act],
                 !.loaded = c.loaded, !.current_capacity = c.current_capacity,
                 !.tickets_number = c.tickets_number, !.status = c.status,
                 !.dirty = c.dirty]

\* update_booking_commit that writes the booking and not the ledger
update_booking_commit_noledger(s, acts, books, commit_ok) ==
    IF \/ ~commit_ok
       \/ s.tickets_number = NONE
       \/ ("current_capacity" \in s.dirty /\ s.req.act \notin DOMAIN acts)
       \/ s.req.bid \notin DOMAIN books
    THEN [result |-> StorageFailure, activities |-> acts, bookings |-> books]
    ELSE [result |-> OK,
          activities |->
              acts,
          bookings |->
              [books EXCEPT ![s.req.bid] =
                  [@ EXCEPT !.tickets_number =
                                IF "tickets_number" \in s.dirty
                                THEN s.tickets_number ELSE @,
                            !.status = IF "status" \in s.dirty THEN s.status ELSE @]]]

\* update_booking_commit whose failure keeps the UPDATE of the activity
update_booking_commit_partial(s, acts, books, commit_ok) ==
    IF \/ ~commit_ok
       \/ s.tickets_number = NONE
       \/ ("current_capacity" \in s.dirty /\ s.req.act \notin DOMAIN acts)
       \/ s.req.bid \notin DOMAIN books
    THEN [result |-> StorageFailure,
          activities |->
              IF "current_capacity" \in s.dirty /\ s.req.act \in DOMAIN acts
              THEN [acts EXCEPT ![s.req.act].current_capacity = s.current_capacity]
              ELSE acts,
          bookings |-> books]
    ELSE [result |-> OK,
          activities |->
              IF "current_capacity" \in s.dirty
              THEN [acts EXCEPT ![s.req.act].current_capacity = s.current_capacity]
              ELSE acts,
          bookings |->
              [books EXCEPT ![s.req.bid] =
                  [@ EXCEPT !.tickets_number =
                                IF "tickets_number" \in s.dirty
                                THEN s.tickets_number ELSE @,
                            !.status = IF "status" \in s.dirty THEN s.status ELSE @]]]

\* db.commit() and db.refresh(booking) of update_booking: one UPDATE per row
\* with dirty attributes, setting those attributes only.  It raises when a
\* row to update or to refresh is gone, when tickets_number is NULL, or
\* when the store fails; the handler then rolls back.
update_booking_commit(s, acts, books, commit_ok) ==
    IF \/ ~commit_ok
       \/ s.tickets_number = NONE
       \/ ("current_capacity" \in s.dirty /\ s.req.act \notin DOMAIN acts)
       \/ s.req.bid \notin DOMAIN books
    THEN [result |-> StorageFailure, activities |-> acts, bookings |-> books]
    ELSE [result |-> OK,
          activities |->
              IF "current_capacity" \in s.dirty
              THEN [acts EXCEPT ![s.req.act].current_capacity = s.current_capacity]
              ELSE acts,
          bookings |->
              [books EXCEPT ![s.req.bid] =
                  [@ EXCEPT !.tickets_number =
                                IF "tickets_number" \in s.dirty
                                THEN s.tickets_number ELSE @,
                            !.status = IF "status" \in s.dirty THEN s.status ELSE @]]]

\* PUT /api/bookings/{booking_id} served as one transaction
update_booking(u, b, body) ==
    LET req == UpdateRequest(u, b, body)
        c == update_booking_checks(u, b, body, activities, bookings, clock)
    IN  /\ IF c.result # PASS
           THEN /\ last' = Response(req, c.result)
                /\ UNCHANGED <<activities, bookings>>
           ELSE \E commit_ok \in BOOLEAN :
                LET s == UpdateSession(req, c)
                    r == update_booking_commit(s, activities, bookings, commit_ok)
                IN  /\ activities' = r.activities
                    /\ bookings' = r.bookings
                    /\ last' = Response(s.req, r.result)
        /\ UNCHANGED <<nextActId, nextBookId, clock, worker>>

\* ---------------------------------------------------------------- cancel_booking
\* cancel_booking_checks without the check of the activity's date
cancel_booking_checks_nopast(u, b, acts, books, t) ==
    IF b \notin DOMAIN books THEN [result |-> NotFound]
    ELSE IF role(u) # ADMIN /\ books[b].user_id # u THEN [result |-> Forbidden]
    ELSE LET booking == books[b]
             found == booking.activity_id \in DOMAIN acts
             activity == acts[booking.activity_id]
             released == activity.current_capacity - booking.tickets_number
             current_capacity_ == IF released < 0 THEN 0 ELSE released
         IN  IF ~found
             THEN [result |-> PASS, act |-> booking.activity_id, loaded |-> NONE,
                   current_capacity |-> NONE, dirty |-> {}]
             ELSE [result |-> PASS, act |-> booking.activity_id,
                   loaded |-> activity.current_capacity,
                   current_capacity |-> current_capacity_,
                   dirty |-> {x \in {"current_capacity"} :
                                 current_capacity_ # activity.current_capacity}]

\* cancel_booking_checks without the floor at 0
cancel_booking_checks_noclamp(u, b, acts, books, t) ==
    IF b \notin DOMAIN books THEN [result |-> NotFound]
    ELSE IF role(u) # ADMIN /\ books[b].user_id # u THEN [result |-> Forbidden]
    ELSE LET booking == books[b]
             found == booking.activity_id \in DOMAIN acts
             activity == acts[booking.activity_id]
             released == activity.current_capacity - booking.tickets_number
             current_capacity_ == released
         IN  IF found /\ before(ensure_aware_datetime(activity.date_time), utcnow(t))
             THEN [result |-> TemporalConstraint]
             ELSE IF ~found
             THEN [result |-> PASS, act |-> booking.activity_id, loaded |-> NONE,
                   current_capacity |-> NONE, dirty |-> {}]
             ELSE [result |-> PASS, act |-> booking.activity_id,
                   loaded |-> activity.current_capacity,
                   current_capacity |-> current_capacity_,
                   dirty |-> {x \in {"current_capacity"} :
                                 current_capacity_ # activity.current_capacity}]

\* cancel_booking up to the commit
cancel_booking_checks(u, b, acts, books, t) ==
    IF b \notin DOMAIN books THEN [result |-> NotFound]
    ELSE IF role(u) # ADMIN /\ books[b].user_id # u THEN [result |-> Forbidden]
    ELSE LET booking == books[b]
             found == booking.activity_id \in DOMAIN acts
             activity == acts[booking.activity_id]
             released == activity.current_capacity - booking.tickets_number
             current_capacity_ == IF released < 0 THEN 0 ELSE released
         IN  IF found /\ before(ensure_aware_datetime(activity.date_time), utcnow(t))
             THEN [result |-> TemporalConstraint]
             ELSE IF ~found
             THEN [result |-> PASS, act |-> booking.activity_id, loaded |-> NONE,
                   current_capacity |-> NONE, dirty |-> {}]
             ELSE [result |-> PASS, act |-> booking.activity_id,
                   loaded |-> activity.current_capacity,
                   current_capacity |-> current_capacity_,
                   dirty |-> {x \in {"current_capacity"} :
                                 current_capacity_ # activity.current_capacity}]

CancelSession(req, c) ==
    [Idle EXCEPT !.pc = "cancel_commit", !.req = [req EXCEPT !.act = c.act],
                 !.loaded = c.loaded, !.current_capacity = c.current_capacity, !.dirty = c.dirty]

\* cancel_booking_commit that deletes the booking and releases nothing
cancel_booking_commit_norelease(s, acts, books, commit_ok) ==
    IF \/ ~commit_ok
       \/ ("current_capacity" \in s.dirty /\ s.req.act \notin DOMAIN acts)
    THEN [result |-> StorageFailure, activities |-> acts, bookings |-> books]
    ELSE [result |-> OK,
          activities |->
              acts,
          bookings |-> Drop(books, {s.req.bid})]

\* cancel_booking_commit that releases the tickets and keeps the row
cancel_booking_commit_keeprow(s, acts, books, commit_ok) ==
    IF \/ ~commit_ok
       \/ ("current_capacity" \in s.dirty /\ s.req.act \notin DOMAIN acts)
    THEN [result |-> StorageFailure, activities |-> acts, bookings |-> books]
    ELSE [result |-> OK,
          activities |->
              IF "current_capacity" \in s.dirty
              THEN [acts EXCEPT ![s.req.act].current_capacity = s.current_capacity]
              ELSE acts,
          bookings |-> books]

\* db.commit() of cancel_booking: UPDATE activities SET current_capacity when
\* it is dirty (raises when the row is gone), DELETE FROM bookings (a row
\* that is already gone only draws a warning).
cancel_booking_commit(s, acts, books, commit_ok) ==
    IF \/ ~commit_ok
       \/ ("current_capacity" \in s.dirty /\ s.req.act \notin DOMAIN acts)
    THEN [result |-> StorageFailure, activities |-> acts, bookings |-> books]
    ELSE [result |-> OK,
          activities |->
              IF "current_capacity" \in s.dirty
              THEN [acts EXCEPT ![s.req.act].current_capacity = s.current_capacity]
              ELSE acts,
          bookings |-> Drop(books, {s.req.bid})]

\* DELETE /api/bookings/{booking_id} served as one transaction
cancel_booking(u, b) ==
    LET req == Request("cancel", u, NONE, b, NONE)
        c == cancel_booking_checks(u, b, activities, bookings, clock)
    IN  /\ IF c.result # PASS
           THEN /\ last' = Response(req, c.result)
                /\ UNCHANGED <<activities, bookings>>
           ELSE \E commit_ok \in BOOLEAN :
                LET s == CancelSession(req, c)
                    r == cancel_booking_commit(s, activities, bookings, commit_ok)
                IN  /\ activities' = r.activities
                    /\ bookings' = r.bookings
                    /\ last' = Response(s.req, r.result)
        /\ UNCHANGED <<nextActId, nextBookId, clock, worker>>

\* ---------------------------------------------------------------- reads
\* RefreshStatus that returns the rows with the statuses as stored
RefreshStatus_skip(books, acts, ids, t) ==
    [b \in DOMAIN books |-> books[b]]

\* the loop "for booking in bookings: booking.update_status()" over the
\* selected rows: each gets the status of its activity's date at time t
RefreshStatus(books, acts, ids, t) ==
    [b \in DOMAIN books |->
        IF b \in ids
        THEN [books[b] EXCEPT
                 !.status = update_status(acts[books[b].activity_id].date_time, t)]
        ELSE books[b]]

\* booking.activity is None for a selected row: update_status raises
Orphans(books, acts, ids) == {b \in ids : books[b].activity_id \notin DOMAIN acts}

\* the status_filter values sent: none, a status, an unsupported string
StatusFilters == {"-", TODAY, "bogus"}

status_filter_valid(f) == f = "-" \/ f \in BookingStatus

\* what a read does once it has selected its rows: refresh, commit, return.
\* The commit writes the statuses that changed; it may fail when it writes.
read_commit(req, ids) ==
    LET refreshed == RefreshStatus(bookings, activities, ids, clock)
    IN  IF Orphans(bookings, activities, ids) # {}
        THEN /\ last' = Response(req, StorageFailure)
             /\ UNCHANGED bookings
        ELSE \E commit_ok \in {TRUE} \cup {x \in {FALSE} : refreshed # bookings} :
                IF commit_ok
                THEN /\ bookings' = refreshed
                     /\ last' = [Response(req, OK) EXCEPT !.rows = ids]
                ELSE /\ last' = Response(req, StorageFailure)
                     /\ UNCHANGED bookings

\* get_my_bookings without the filter on user_id
get_my_bookings_all(u, status_filter) ==
    LET req == [Request("list_my", u, NONE, NONE, NONE) EXCEPT !.status = status_filter]
        selected == {b \in DOMAIN bookings :
                        status_filter # "-" => bookings[b].status = status_filter}
    IN  /\ IF ~status_filter_valid(status_filter)
           THEN /\ last' = Response(req, InvalidInput)
                /\ UNCHANGED bookings
           ELSE read_commit(req, selected)
        /\ UNCHANGED <<activities, nextActId, nextBookId, clock, worker>>

\* GET /api/bookings/my
get_my_bookings(u, status_filter) ==
    LET req == [Request("list_my", u, NONE, NONE, NONE) EXCEPT !.status = status_filter]
        selected == {b \in DOMAIN bookings :
                        /\ bookings[b].user_id = u
                        /\ status_filter # "-" => bookings[b].status = status_filter}
    IN  /\ IF ~status_filter_valid(status_filter)
           THEN /\ last' = Response(req, InvalidInput)
                /\ UNCHANGED bookings
           ELSE read_commit(req, selected)
        /\ UNCHANGED <<activities, nextActId, nextBookId, clock, worker>>

\* GET /api/bookings/admin/all; user_id and activity_id are the optional
\* filters ("-" and NONE: not given); the response keeps the user_id filter
\* in fields_set
get_all_bookings_admin(u, user_id, activity_id, status_filter) ==
    LET req == [Request("list_all", u, activity_id, NONE, NONE)
                   EXCEPT !.status = status_filter, !.fields_set = {user_id} \ {"-"}]
        selected == {b \in DOMAIN bookings :
                        /\ user_id # "-" => bookings[b].user_id = user_id
                        /\ activity_id # NONE => bookings[b].activity_id = activity_id
                        /\ status_filter # "-" => bookings[b].status = status_filter}
    IN  /\ IF role(u) # ADMIN
           THEN /\ last' = Response(req, Forbidden)
                /\ UNCHANGED bookings
           ELSE IF ~status_filter_valid(status_filter)
           THEN /\ last' = Response(req, InvalidInput)
                /\ UNCHANGED bookings
           ELSE read_commit(req, selected)
        /\ UNCHANGED <<activities, nextActId, nextBookId, clock, worker>>

\* get_booking without the permission check
get_booking_anyone(u, b) ==
    LET req == Request("get", u, NONE, b, NONE)
    IN  /\ IF b \notin DOMAIN bookings
           THEN /\ last' = Response(req, NotFound)
                /\ UNCHANGED bookings
           ELSE read_commit(req, {b})
        /\ UNCHANGED <<activities, nextActId, nextBookId, clock, worker>>

\* GET /api/bookings/{booking_id}
get_booking(u, b) ==
    LET req == Request("get", u, NONE, b, NONE)
    IN  /\ IF b \notin DOMAIN bookings
           THEN /\ last' = Response(req, NotFound)
                /\ UNCHANGED bookings
           ELSE IF role(u) # ADMIN /\ bookings[b].user_id # u
           THEN /\ last' = Response(req, Forbidden)
                /\ UNCHANGED bookings
           ELSE read_commit(req, {b})
        /\ UNCHANGED <<activities, nextActId, nextBookId, clock, worker>>

CountStatus(books, st) == Cardinality({b \in DOMAIN books : books[b].status = st})

\* BookingStats with total_tickets counting the bookings, not their tickets
BookingStats_rows(books) ==
    [total_bookings |-> Cardinality(DOMAIN books),
     upcoming_bookings |-> CountStatus(books, UPCOMING),
     today_bookings |-> CountStatus(books, TODAY),
     past_bookings |-> CountStatus(books, PAST),
     total_tickets |-> Cardinality(DOMAIN books)]

\* the five queries of get_booking_stats_admin over the committed rows
BookingStats(books) ==
    [total_bookings |-> Cardinality(DOMAIN books),
     upcoming_bookings |-> CountStatus(books, UPCOMING),
     today_bookings |-> CountStatus(books, TODAY),
     past_bookings |-> CountStatus(books, PAST),
     total_tickets |-> SumTickets(books, DOMAIN books)]

\* GET /api/bookings/stats/admin: refresh every booking, commit, count
get_booking_stats_admin(u) ==
    LET req == Request("stats", u, NONE, NONE, NONE)
        refreshed == RefreshStatus(bookings, activities, DOMAIN bookings, clock)
    IN  /\ IF role(u) # ADMIN
           THEN /\ last' = Response(req, Forbidden)
                /\ UNCHANGED bookings
           ELSE IF Orphans(bookings, activities, DOMAIN bookings) # {}
           THEN /\ last' = Response(req, StorageFailure)
                /\ UNCHANGED bookings
           ELSE \E commit_ok \in {TRUE} \cup {x \in {FALSE} : refreshed # bookings} :
                IF commit_ok
                THEN /\ bookings' = refreshed
                     /\ last' = [Response(req, OK) EXCEPT !.stats = BookingStats(refreshed)]
                ELSE /\ last' = Response(req, StorageFailure)
                     /\ UNCHANGED bookings
        /\ UNCHANGED <<activities, nextActId, nextBookId, clock, worker>>

\* check_booking_availability answering "available" with no spot left over
\* (>= for >)
check_booking_availability_ge(u, a, n) ==
    LET req == Request("availability", u, a, NONE, n)
        activity == activities[a]
        activity_date_aware == ensure_aware_datetime(activity.date_time)
        spots_left == activity.max_capacity - activity.current_capacity
    IN  /\ IF n < 1
           THEN last' = Response(req, InvalidInput)
           ELSE IF a \notin DOMAIN activities
           THEN last' = Response(req, NotFound)
           ELSE IF before(activity_date_aware, utcnow(clock))
           THEN last' = Response(req, OK)
           ELSE IF spots_left <= 0
           THEN last' = Response(req, OK)
           ELSE IF n >= spots_left
           THEN last' = Response(req, OK)
           ELSE IF role(u) # ADMIN /\ BookingsOfUser(bookings, u, a) # {}
           THEN last' = Response(req, OK)
           ELSE last' = [Response(req, OK) EXCEPT !.available = TRUE]
        /\ UNCHANGED <<activities, bookings, nextActId, nextBookId, clock, worker>>

\* GET /api/bookings/availability/{activity_id}?tickets_number=n (the query
\* parameter has ge=1): 200 with available false or true, no write
check_booking_availability(u, a, n) ==
    LET req == Request("availability", u, a, NONE, n)
        activity == activities[a]
        activity_date_aware == ensure_aware_datetime(activity.date_time)
        spots_left == activity.max_capacity - activity.current_capacity
    IN  /\ IF n < 1
           THEN last' = Response(req, InvalidInput)
           ELSE IF a \notin DOMAIN activities
           THEN last' = Response(req, NotFound)
           ELSE IF before(activity_date_aware, utcnow(clock))
           THEN last' = Response(req, OK)
           ELSE IF spots_left <= 0
           THEN last' = Response(req, OK)
           ELSE IF n > spots_left
           THEN last' = Response(req, OK)
           ELSE IF role(u) # ADMIN /\ BookingsOfUser(bookings, u, a) # {}
           THEN last' = Response(req, OK)
           ELSE last' = [Response(req, OK) EXCEPT !.available = TRUE]
        /\ UNCHANGED <<activities, bookings, nextActId, nextBookId, clock, worker>>

\* ---------------------------------------------------------------- activities
\* ActivityCreate: max_capacity has gt=0
ActivityCreate_valid(m) == m > 0

\* POST /api/activities
create_activity(u, d, m) ==
    LET req == Request("create_activity", u, NONE, NONE, NONE)
    IN  /\ IF ~ActivityCreate_valid(m)
           THEN /\ last' = Response(req, InvalidInput)
                /\ UNCHANGED <<activities, nextActId>>
           ELSE IF role(u) # ADMIN
           THEN /\ last' = Response(req, Forbidden)
                /\ UNCHANGED <<activities, nextActId>>
           ELSE /\ nextActId <= MaxActs
                /\ activities' = Put(activities, nextActId,
                                     [max_capacity |-> m, current_capacity |-> 0,
                                      date_time |-> naive(d), is_active |-> TRUE])
                /\ nextActId' = nextActId + 1
                /\ last' = Response([req EXCEPT !.act = nextActId], OK)
        /\ UNCHANGED <<bookings, nextBookId, clock, worker>>

\* the bodies a PUT of an activity carries here: at most one of the fields
\* that bear on bookings; an absent field has its slot at a fixed value
WellFormedActivityBody(body) ==
    /\ Cardinality(body.fields_set) <= 1
    /\ ("date_time" \notin body.fields_set) => body.date_time = 0
    /\ ("max_capacity" \notin body.fields_set) => body.max_capacity = 1
    /\ ("is_active" \notin body.fields_set) => body.is_active

ActivityUpdateBodies ==
    {body \in [date_time : Instants, max_capacity : 0..MaxCap, is_active : BOOLEAN,
               fields_set : SUBSET {"date_time", "max_capacity", "is_active"}] :
        WellFormedActivityBody(body)}

\* the requests on activities: an administrator sends every body, a
\* customer (who is refused whatever the body) an empty PUT and one POST
\* with and without a valid max_capacity
ActivityUpdateRequests ==
    {r \in Users \X ActivityUpdateBodies : role(r[1]) = ADMIN \/ r[2].fields_set = {}}

ActivityCreateRequests ==
    {r \in Users \X Instants \X (0..MaxCap) :
        role(r[1]) = ADMIN \/ (r[2] = 0 /\ r[3] <= 1)}

\* ActivityUpdate: max_capacity, when given, has gt=0
ActivityUpdate_valid(body) == body.max_capacity > 0

\* PUT /api/activities/{activity_id}: setattr for every field of the body
update_activity(u, a, body) ==
    LET req == Request("update_activity", u, a, NONE, NONE)
        db_activity == activities[a]
    IN  /\ IF ~ActivityUpdate_valid(body)
           THEN /\ last' = Response(req, InvalidInput)
                /\ UNCHANGED activities
           ELSE IF role(u) # ADMIN
           THEN /\ last' = Response(req, Forbidden)
                /\ UNCHANGED activities
           ELSE IF a \notin DOMAIN activities
           THEN /\ last' = Response(req, NotFound)
                /\ UNCHANGED activities
           ELSE /\ activities' =
                      [activities EXCEPT ![a] =
                          [@ EXCEPT
                              !.date_time = IF "date_time" \in body.fields_set
                                            THEN naive(body.date_time) ELSE @,
                              !.max_capacity = IF "max_capacity" \in body.fields_set
                                               THEN body.max_capacity ELSE @,
                              !.is_active = IF "is_active" \in body.fields_set
                                            THEN body.is_active ELSE @]]
                /\ last' = Response(req, OK)
        /\ UNCHANGED <<bookings, nextActId, nextBookId, clock, worker>>

\* toggle_activity_status that also empties the activity's ledger
toggle_activity_status_reset(u, a) ==
    LET req == Request("toggle", u, a, NONE, NONE)
    IN  /\ IF role(u) # ADMIN
           THEN /\ last' = Response(req, Forbidden)
                /\ UNCHANGED activities
           ELSE IF a \notin DOMAIN activities
           THEN /\ last' = Response(req, NotFound)
                /\ UNCHANGED activities
           ELSE /\ activities' = [activities EXCEPT ![a].is_active = ~@,
                                                     ![a].current_capacity = 0]
                /\ last' = Response(req, OK)
        /\ UNCHANGED <<bookings, nextActId, nextBookId, clock, worker>>

\* PATCH /api/activities/{activity_id}/toggle
toggle_activity_status(u, a) ==
    LET req == Request("toggle", u, a, NONE, NONE)
    IN  /\ IF role(u) # ADMIN
           THEN /\ last' = Response(req, Forbidden)
                /\ UNCHANGED activities
           ELSE IF a \notin DOMAIN activities
           THEN /\ last' = Response(req, NotFound)
                /\ UNCHANGED activities
           ELSE /\ activities' = [activities EXCEPT ![a].is_active = ~@]
                /\ last' = Response(req, OK)
        /\ UNCHANGED <<bookings, nextActId, nextBookId, clock, worker>>

\* delete_activity leaving the bookings of the activity behind
delete_activity_nocascade(u, a) ==
    LET req == Request("delete_activity", u, a, NONE, NONE)
    IN  /\ IF role(u) # ADMIN
           THEN /\ last' = Response(req, Forbidden)
                /\ UNCHANGED <<activities, bookings>>
           ELSE IF a \notin DOMAIN activities
           THEN /\ last' = Response(req, NotFound)
                /\ UNCHANGED <<activities, bookings>>
           ELSE /\ activities' = Drop(activities, {a})
                /\ UNCHANGED bookings
                /\ last' = Response(req, OK)
        /\ UNCHANGED <<nextActId, nextBookId, clock, worker>>

\* DELETE /api/activities/{activity_id}: the bookings of the activity go
\* with it (ForeignKey ondelete='CASCADE')
delete_activity(u, a) ==
    LET req == Request("delete_activity", u, a, NONE, NONE)
    IN  /\ IF role(u) # ADMIN
           THEN /\ last' = Response(req, Forbidden)
                /\ UNCHANGED <<activities, bookings>>
           ELSE IF a \notin DOMAIN activities
           THEN /\ last' = Response(req, NotFound)
                /\ UNCHANGED <<activities, bookings>>
           ELSE /\ activities' = Drop(activities, {a})
                /\ bookings' = Drop(bookings, BookingsOf(bookings, a))
                /\ last' = Response(req, OK)
        /\ UNCHANGED <<nextActId, nextBookId, clock, worker>>

\* the wall clock advances
Tick ==
    /\ clock < MaxTime
    /\ clock' = clock + 1
    /\ last' = Response(Request("tick", "-", NONE, NONE, NONE), OK)
    /\ UNCHANGED <<activities, bookings, nextActId, nextBookId, worker>>

\* ---------------------------------------------------------------- interleaved handlers
\* A booking handler served by worker w: its SELECTs and checks run against
\* the rows committed at that moment (no FOR UPDATE, no isolation level set
\* by the handlers), its COMMIT flushes the session later.
Reply(w, resp) ==
    /\ last' = resp
    /\ worker' = [worker EXCEPT ![w] = Worker(Idle, resp, @.served + 1)]

Accept(w) ==
    /\ worker[w].session.pc = "idle"
    /\ worker[w].served < MaxRequests

create_booking_begin(w, u, a, n) ==
    LET req == Request("create", u, a, NONE, n)
        c == create_booking_checks(u, a, n, activities, bookings, clock)
    IN  /\ Accept(w)
        /\ IF c.result # PASS
           THEN Reply(w, Response(req, c.result))
           ELSE /\ worker' = [worker EXCEPT ![w].session = CreateSession(req, c)]
                /\ UNCHANGED last
        /\ UNCHANGED <<activities, bookings, nextActId, nextBookId, clock>>

create_booking_end(w, commit_ok) ==
    LET s == worker[w].session
        r == create_booking_commit(s, activities, bookings, nextBookId, commit_ok)
    IN  /\ s.pc = "create_commit"
        /\ nextBookId <= MaxBookings
        /\ activities' = r.activities
        /\ bookings' = r.bookings
        /\ nextBookId' = IF r.result = OK THEN nextBookId + 1 ELSE nextBookId
        /\ Reply(w, Response([s.req EXCEPT !.bid =
                                 IF r.result = OK THEN nextBookId ELSE NONE], r.result))
        /\ UNCHANGED <<nextActId, clock>>

update_booking_begin(w, u, b, body) ==
    LET req == UpdateRequest(u, b, body)
        c == update_booking_checks(u, b, body, activities, bookings, clock)
    IN  /\ Accept(w)
        /\ IF c.result # PASS
           THEN Reply(w, Response(req, c.result))
           ELSE /\ worker' = [worker EXCEPT ![w].session = UpdateSession(req, c)]
                /\ UNCHANGED last
        /\ UNCHANGED <<activities, bookings, nextActId, nextBookId, clock>>

update_booking_end(w, commit_ok) ==
    LET s == worker[w].session
        r == update_booking_commit(s, activities, bookings, commit_ok)
    IN  /\ s.pc = "update_commit"
        /\ activities' = r.activities
        /\ bookings' = r.bookings
        /\ Reply(w, Response(s.req, r.result))
        /\ UNCHANGED <<nextActId, nextBookId, clock>>

cancel_booking_begin(w, u, b) ==
    LET req == Request("cancel", u, NONE, b, NONE)
        c == cancel_booking_checks(u, b, activities, bookings, clock)
    IN  /\ Accept(w)
        /\ IF c.result # PASS
           THEN Reply(w, Response(req, c.result))
           ELSE /\ worker' = [worker EXCEPT ![w].session = CancelSession(req, c)]
                /\ UNCHANGED last
        /\ UNCHANGED <<activities, bookings, nextActId, nextBookId, clock>>

cancel_booking_end(w, commit_ok) ==
    LET s == worker[w].session
        r == cancel_booking_commit(s, activities, bookings, commit_ok)
    IN  /\ s.pc = "cancel_commit"
        /\ activities' = r.activities
        /\ bookings' = r.bookings
        /\ Reply(w, Response(s.req, r.result))
        /\ UNCHANGED <<nextActId, nextBookId, clock>>

\* ---------------------------------------------------------------- specification
\* the list requests: a customer lists its own bookings with every filter;
\* an administrator (who books nothing) lists its own without a filter and
\* all bookings with one filter at most; a customer is refused the list of
\* all whatever the filters
\* the PUT requests on bookings: one customer sends every body, the other
\* users the empty body and a resize to MaxTickets
BookingUpdateRequests ==
    {r \in Users \X BookingUpdateBodies :
        \/ r[1] = "u1"
        \/ r[2].status = "-" /\ r[2].tickets_number = MaxTickets
        \/ r[2].fields_set = {}}

ListMyRequests ==
    {r \in Users \X StatusFilters : role(r[1]) = CUSTOMER \/ r[2] = "-"}

ListAllRequests ==
    {r \in Users \X (Customers \cup {"-"}) \X (ActIds \cup {NONE}) \X StatusFilters :
        /\ role(r[1]) # ADMIN => (r[2] = "-" /\ r[3] = NONE /\ r[4] = "-")
        /\ (r[2] = "-" /\ r[3] = NONE) \/ (r[2] = "-" /\ r[4] = "-")
               \/ (r[3] = NONE /\ r[4] = "-")
        /\ r[2] \in {"-", "u1"}}

\* every handler runs as one transaction, one request at a time
\* the availability checks: a customer asks for every valid number of
\* tickets, one of them also for none, an administrator for one ticket
AvailabilityRequests ==
    {r \in Users \X (0..MaxTickets) :
        \/ role(r[1]) = CUSTOMER /\ r[2] >= 1
        \/ r[1] = "u1"
        \/ r[2] = 1}

Next ==
    \/ \E u \in Users, a \in ActIds, n \in 0..MaxTickets : create_booking(u, a, n)
    \/ \E r \in BookingUpdateRequests, b \in BookIds : update_booking(r[1], b, r[2])
    \/ \E u \in Users, b \in BookIds : cancel_booking(u, b)
    \/ \E u \in Users, b \in BookIds : get_booking(u, b)
    \/ \E r \in ListMyRequests : get_my_bookings(r[1], r[2])
    \/ \E r \in ListAllRequests : get_all_bookings_admin(r[1], r[2], r[3], r[4])
    \/ \E u \in Users : get_booking_stats_admin(u)
    \/ \E r \in AvailabilityRequests, a \in ActIds :
            check_booking_availability(r[1], a, r[2])
    \/ \E r \in ActivityCreateRequests : create_activity(r[1], r[2], r[3])
    \/ \E r \in ActivityUpdateRequests, a \in ActIds : update_activity(r[1], a, r[2])
    \/ \E u \in Users, a \in ActIds : toggle_activity_status(u, a)
    \/ \E u \in Users, a \in ActIds : delete_activity(u, a)
    \/ Tick

Spec == Init /\ [][Next]_vars

\* The booking handlers of the workers interleave at their commits.  The
\* requests are the well-formed ones of customers: what is rejected before
\* the first SELECT is covered by Next.
ConcBodies ==
    {body \in BookingUpdateBodies :
        body.fields_set = {"tickets_number"} /\ body.tickets_number >= 1}

NextConc ==
    \/ \E u \in Admins, d \in {MaxTime}, m \in 1..MaxCap : create_activity(u, d, m)
    \/ \E w \in Workers, u \in Customers, a \in ActIds, n \in 1..MaxTickets :
            create_booking_begin(w, u, a, n)
    \/ \E w \in Workers, commit_ok \in BOOLEAN : create_booking_end(w, commit_ok)
    \/ \E w \in Workers, u \in Customers, b \in BookIds, body \in ConcBodies :
            update_booking_begin(w, u, b, body)
    \/ \E w \in Workers, commit_ok \in BOOLEAN : update_booking_end(w, commit_ok)
    \/ \E w \in Workers, u \in Customers, b \in BookIds : cancel_booking_begin(w, u, b)
    \/ \E w \in Workers, commit_ok \in BOOLEAN : cancel_booking_end(w, commit_ok)

SpecConc == Init /\ [][NextConc]_vars

\* The handlers that move the two capacities, one at a time, with capacities
\* and ticket counts up to MaxWide: an administrator creates the activity
\* and rewrites its max_capacity, customers book, resize and cancel.
WideBody(n) ==
    [tickets_number |-> n, status |-> "-", fields_set |-> {"tickets_number"}]

WideActivityBody(m) ==
    [date_time |-> 0, max_capacity |-> m, is_active |-> TRUE,
     fields_set |-> {"max_capacity"}]

NextWide ==
    \/ \E u \in Admins, m \in 1..MaxWide : create_activity(u, MaxTime, m)
    \/ \E u \in Admins, a \in ActIds, m \in 1..MaxWide :
            update_activity(u, a, WideActivityBody(m))
    \/ \E u \in Customers, a \in ActIds, n \in 1..MaxWide : create_booking(u, a, n)
    \/ \E u \in Customers, b \in BookIds, n \in 1..MaxWide :
            update_booking(u, b, WideBody(n))
    \/ \E u \in Customers, b \in BookIds : cancel_booking(u, b)

SpecWide == Init /\ [][NextWide]_vars

\* ---------------------------------------------------------------- properties
Conserved(acts, books) ==
    \A a \in DOMAIN acts :
        SumTickets(books, BookingsOf(books, a)) = acts[a].current_capacity

Quiescent == \A w \in Workers : worker[w].session.pc = "idle"

\* C1: in every committed state reached by serial booking and admin activity
\* operations every activity has 0 <= current_capacity <= max_capacity.
C1_CapacityWithinBounds ==
    \A a \in DOMAIN activities :
        /\ 0 <= activities[a].current_capacity
        /\ activities[a].current_capacity <= activities[a].max_capacity

\* C2: in every committed state, also when Create requests interleave, there
\* is at most one booking row per (user_id, activity_id).
C2_OneBookingPerUserActivity ==
    \A u \in Users, a \in ActIds : Cardinality(BookingsOfUser(bookings, u, a)) <= 1

\* C3: conservation under serial execution: for every activity the tickets
\* of its bookings sum up to its current_capacity.
C3_Conservation == Conserved(activities, bookings)

\* C3 witness: a booking was resized by a successful Update while another
\* booking holds tickets of the same activity.
C3_Witness ==
    /\ last.op = "update" /\ last.result = OK /\ last.n # NONE
    /\ last.bid \in DOMAIN bookings
    /\ Cardinality(BookingsOf(bookings, last.act)) = 2
    /\ activities[last.act].current_capacity = 2

\* C4: two Create requests of different customers, one ticket each, for an
\* activity that exists with exactly one spot left (max_capacity 1, no
\* booking yet), each worker serving only that request and no commit failing
\* in the store: exactly one succeeds, the other is rejected with
\* CapacityExceeded and current_capacity ends at max_capacity.
C4_LastSpotRace ==
    \A a \in DOMAIN activities :
        LET r1 == worker["w1"].reply
            r2 == worker["w2"].reply
        IN  (/\ Quiescent
             /\ worker["w1"].served = 1 /\ worker["w2"].served = 1
             /\ r1.op = "create" /\ r2.op = "create"
             /\ r1.act = a /\ r2.act = a /\ r1.n = 1 /\ r2.n = 1
             /\ r1.user # r2.user
             /\ activities[a].max_capacity = 1
             /\ {r1.result, r2.result} \cap {StorageFailure, NotFound} = {})
            => /\ {r1.result, r2.result} = {OK, CapacityExceeded}
               /\ activities[a].current_capacity = activities[a].max_capacity

\* C5: under interleaving no committed write of current_capacity is computed
\* from a stale read: at a successful commit that writes current_capacity
\* the row still holds the value the session loaded.
C5_NoStaleWrite ==
    [][\A w \in Workers :
          (/\ worker[w].session.pc # "idle"
           /\ "current_capacity" \in worker[w].session.dirty
           /\ worker'[w].served = worker[w].served + 1
           /\ worker'[w].reply.result = OK)
          => activities[worker[w].session.req.act].current_capacity
                 = worker[w].session.loaded]_vars

\* what a step presents to a property about a create: the request is in
\* last' and the rows it ran against are the unprimed tables
CreateStep == last'.op = "create"
UpdateStep == last'.op = "update"

NotPast(a) == ~before(ensure_aware_datetime(activities[a].date_time), utcnow(clock))

\* C6: a Create by a customer on an existing, non-past activity with
\* tickets_number >= 1 is rejected with CapacityExceeded exactly when
\* current_capacity + tickets_number > max_capacity, and that rejection
\* leaves the activities and the bookings unchanged.
C6_CapacityExceededIff ==
    [][(/\ CreateStep
        /\ role(last'.user) = CUSTOMER
        /\ last'.act \in DOMAIN activities
        /\ NotPast(last'.act)
        /\ last'.n >= 1)
       => LET activity == activities[last'.act]
          IN  /\ (last'.result = CapacityExceeded)
                     <=> (activity.current_capacity + last'.n > activity.max_capacity)
              /\ (last'.result = CapacityExceeded)
                     => UNCHANGED <<activities, bookings>>]_vars

\* C6 witness: one spot is left and a customer asked for two tickets; the
\* request was rejected with CapacityExceeded.
C6_Witness ==
    /\ last.op = "create" /\ last.result = CapacityExceeded /\ last.n = 2
    /\ role(last.user) = CUSTOMER
    /\ last.act \in DOMAIN activities
    /\ activities[last.act].max_capacity = 2
    /\ activities[last.act].current_capacity = 1

\* the preconditions of Create as the specification lists them
CreatePreconditions(u, a, n) ==
    /\ role(u) # ADMIN
    /\ a \in DOMAIN activities
    /\ activities[a].is_active
    /\ NotPast(a)
    /\ n >= 1
    /\ activities[a].current_capacity + n <= activities[a].max_capacity
    /\ BookingsOfUser(bookings, u, a) = {}

\* C7: a Create that passes every precondition is not rejected (it succeeds
\* unless the store fails), and a successful Create adds tickets_number to
\* the activity's current_capacity, inserts exactly one booking for (user,
\* activity) with that tickets_number and the classifier's status, and
\* changes nothing else.
C7_CreateEffect ==
    [][CreateStep =>
        LET u == last'.user
            a == last'.act
            n == last'.n
            b == last'.bid
        IN  /\ CreatePreconditions(u, a, n) => last'.result \in {OK, StorageFailure}
            /\ (last'.result = OK) =>
                  /\ a \in DOMAIN activities
                  /\ b \notin DOMAIN bookings
                  /\ activities' =
                        [activities EXCEPT ![a].current_capacity = @ + n]
                  /\ bookings' =
                        Put(bookings, b,
                            [user_id |-> u, activity_id |-> a, tickets_number |-> n,
                             status |-> update_status(activities[a].date_time, clock)])
                  /\ UNCHANGED <<nextActId, clock, worker>>]_vars

\* C7 witness: a successful Create of one ticket filled the activity
\* exactly (one spot was left of two).
C7_Witness ==
    /\ last.op = "create" /\ last.result = OK /\ last.n = 1
    /\ last.bid \in DOMAIN bookings
    /\ Cardinality(BookingsOf(bookings, last.act)) = 2
    /\ activities[last.act].max_capacity = 2
    /\ activities[last.act].current_capacity = 2

\* the rejection the specification's order of preconditions gives
FirstFailingPrecondition(u, a, n) ==
    IF role(u) = ADMIN THEN Forbidden
    ELSE IF a \notin DOMAIN activities \/ ~activities[a].is_active THEN NotFound
    ELSE IF ~NotPast(a) THEN TemporalConstraint
    ELSE IF n < 1 THEN InvalidInput
    ELSE IF activities[a].current_capacity + n > activities[a].max_capacity
    THEN CapacityExceeded
    ELSE IF BookingsOfUser(bookings, u, a) # {} THEN Conflict
    ELSE PASS

\* C8: Create reports the first failing precondition in the order: not an
\* administrator, activity exists and is active, activity not before now,
\* tickets_number >= 1, capacity suffices, no existing booking (a failure of
\* the store aside).
C8_CheckOrder ==
    [][CreateStep =>
        LET first == FirstFailingPrecondition(last'.user, last'.act, last'.n)
        IN  (first # PASS /\ last'.result # StorageFailure)
                => last'.result = first]_vars

\* C9: a Create on an inactive activity is rejected as not found (a failure
\* of the store aside), inserts no booking and leaves current_capacity
\* unchanged.
C9_InactiveNotBookable ==
    [][(/\ CreateStep
        /\ role(last'.user) = CUSTOMER
        /\ last'.n >= 1
        /\ last'.act \in DOMAIN activities
        /\ ~activities[last'.act].is_active
        /\ last'.result # StorageFailure)
       => /\ last'.result = NotFound
          /\ UNCHANGED <<activities, bookings>>]_vars

\* C10: an Update whose new ticket count exceeds the old one by more than
\* the free spots (new - old > max_capacity - current_capacity) does not
\* succeed, and the bookings and the activities are unchanged.
C10_UpdateOverCapacityRejected ==
    [][(/\ UpdateStep
        /\ last'.bid \in DOMAIN bookings
        /\ last'.n # NONE
        /\ bookings[last'.bid].activity_id \in DOMAIN activities
        /\ LET booking == bookings[last'.bid]
               activity == activities[booking.activity_id]
           IN  last'.n - booking.tickets_number
                   > activity.max_capacity - activity.current_capacity)
       => /\ last'.result # OK
          /\ UNCHANGED <<activities, bookings>>]_vars


\* C11: a successful Update with a ticket count n on a booking holding m
\* tickets changes the activity's current_capacity by n - m and sets the
\* booking's tickets_number to n; a successful Update without a ticket count
\* (or with n = m) leaves current_capacity and tickets_number as they were;
\* no other activity field and no other booking changes.
C11_UpdateEffect ==
    [][(UpdateStep /\ last'.result = OK) =>
        LET b == last'.bid
            n == last'.n
        IN  /\ b \in DOMAIN bookings
            /\ bookings[b].activity_id \in DOMAIN activities
            /\ LET a == bookings[b].activity_id
                   m == bookings[b].tickets_number
               IN  /\ DOMAIN bookings' = DOMAIN bookings
                   /\ \A x \in DOMAIN bookings \ {b} : bookings'[x] = bookings[x]
                   /\ IF n # NONE
                      THEN /\ activities' =
                                [activities EXCEPT ![a].current_capacity = @ + (n - m)]
                           /\ bookings'[b].tickets_number = n
                      ELSE /\ activities' = activities
                           /\ bookings'[b].tickets_number = m
                   /\ (n = m) => activities' = activities]_vars

\* C11 witness: a successful Update to two tickets on a booking of an
\* activity that is then full with that booking alone.
C11_Witness ==
    /\ last.op = "update" /\ last.result = OK /\ last.n = 2
    /\ last.bid \in DOMAIN bookings
    /\ bookings[last.bid].tickets_number = 2
    /\ BookingsOf(bookings, last.act) = {last.bid}
    /\ activities[last.act].max_capacity = 2
    /\ activities[last.act].current_capacity = 2


\* a step of Get, Update or Cancel: the three operations on one booking id
BookingStep == last'.op \in {"get", "update", "cancel"}

\* the body of the request of the step passes the schema (Get and Cancel
\* carry no body)
WellFormedStep == last'.op = "update" => (last'.n = NONE \/ last'.n >= 1)

\* C12: Get, Update and Cancel succeed only for the booking's owner or an
\* administrator.  On a missing booking id the answer is NotFound whoever
\* asks, on a booking of another user a customer is answered Forbidden (a
\* body that fails the schema is answered InvalidInput instead, also with
\* nothing changed), and in both cases the bookings and the activities are
\* unchanged.
C12_OwnerOrAdmin ==
    [][BookingStep =>
        LET b == last'.bid
            u == last'.user
            missing == b \notin DOMAIN bookings
            other == ~missing /\ role(u) # ADMIN /\ bookings[b].user_id # u
        IN  /\ (last'.result = OK) => (~missing /\ ~other)
            /\ (missing \/ other) => UNCHANGED <<activities, bookings>>
            /\ (missing /\ WellFormedStep) => last'.result = NotFound
            /\ (other /\ WellFormedStep) => last'.result = Forbidden
            /\ (missing \/ other) => last'.result \in {NotFound, Forbidden, InvalidInput}
            /\ (last'.result = Forbidden) => ~missing]_vars

\* C12 witness: a customer asked to cancel the booking of another customer
\* and was answered Forbidden; the booking is still there.
C12_Witness ==
    /\ last.op = "cancel" /\ last.result = Forbidden
    /\ role(last.user) = CUSTOMER
    /\ last.bid \in DOMAIN bookings
    /\ bookings[last.bid].user_id # last.user


CancelStep == last'.op = "cancel"

\* C13: a Cancel, by its owner or by an administrator, of a booking whose
\* activity is dated before today is rejected with TemporalConstraint and
\* leaves the bookings and the activities unchanged; whoever asks, no Cancel
\* removes a booking of an activity dated before today.
C13_CancelPastRejected ==
    [][(/\ CancelStep
        /\ last'.bid \in DOMAIN bookings
        /\ bookings[last'.bid].activity_id \in DOMAIN activities
        /\ date(ensure_aware_datetime(
                    activities[bookings[last'.bid].activity_id].date_time))
               < date(utcnow(clock)))
       => /\ (role(last'.user) = ADMIN \/ bookings[last'.bid].user_id = last'.user)
                 => last'.result = TemporalConstraint
          /\ last'.result # OK
          /\ UNCHANGED <<activities, bookings>>]_vars

\* C13 witness: an administrator asked to cancel a booking of an activity of
\* an earlier day and was answered TemporalConstraint.
C13_Witness ==
    /\ last.op = "cancel" /\ last.result = TemporalConstraint
    /\ role(last.user) = ADMIN
    /\ last.bid \in DOMAIN bookings
    /\ date(activities[bookings[last.bid].activity_id].date_time) < date(utcnow(clock))


\* cancel_booking_checks on an activity with c spots taken and one booking
\* of t tickets (c < t is what a lost update of current_capacity leaves)
ReleaseOf(c, t) ==
    cancel_booking_checks("u1", 1,
        1 :> [max_capacity |-> MaxCap, current_capacity |-> c,
              date_time |-> naive(MaxTime), is_active |-> TRUE],
        1 :> [user_id |-> "u1", activity_id |-> 1, tickets_number |-> t,
              status |-> UPCOMING],
        0)

\* C14: a successful Cancel of a booking with t tickets deletes that booking
\* row and nothing else and sets the activity's current_capacity to
\* max(0, current_capacity - t); the value Cancel computes is floored at 0
\* for every current_capacity and every t, also when t exceeds it.
C14_CancelEffect ==
    [][(CancelStep /\ last'.result = OK) =>
        LET b == last'.bid
        IN  /\ b \in DOMAIN bookings
            /\ bookings[b].activity_id \in DOMAIN activities
            /\ LET a == bookings[b].activity_id
                   t == bookings[b].tickets_number
               IN  /\ bookings' = Drop(bookings, {b})
                   /\ activities' =
                         [activities EXCEPT ![a].current_capacity =
                             IF @ - t < 0 THEN 0 ELSE @ - t]
            /\ \A c \in 0..MaxCap, t \in 1..MaxTickets :
                   /\ ReleaseOf(c, t).result = PASS
                   /\ ReleaseOf(c, t).current_capacity = (IF c < t THEN 0 ELSE c - t)]_vars

\* C14 witness: a successful Cancel deleted its booking and released its
\* tickets; the activity keeps the one ticket of the booking that remains.
C14_Witness ==
    /\ last.op = "cancel" /\ last.result = OK
    /\ last.bid \notin DOMAIN bookings
    /\ last.act \in DOMAIN activities
    /\ Cardinality(BookingsOf(bookings, last.act)) = 1
    /\ activities[last.act].current_capacity = 1


\* C15: a booking's status is never set by a client: whatever the optional
\* status field of an Update carries, the status committed by the Update is
\* the classifier's result for the activity's date and the current time,
\* and an Update that is not committed leaves the stored status as it was.
C15_StatusNotClientSet ==
    [][(UpdateStep /\ last'.bid \in DOMAIN bookings) =>
        LET b == last'.bid
        IN  IF last'.result = OK
            THEN /\ b \in DOMAIN bookings'
                 /\ bookings[b].activity_id \in DOMAIN activities
                 /\ bookings'[b].status =
                        update_status(activities[bookings[b].activity_id].date_time,
                                      clock)
            ELSE bookings' = bookings]_vars

\* C15 witness: an Update that carried status "past" succeeded and the
\* booking's status is "today".
C15_Witness ==
    /\ last.op = "update" /\ last.result = OK
    /\ last.status = PAST /\ "status" \in last.fields_set
    /\ last.bid \in DOMAIN bookings
    /\ bookings[last.bid].status = TODAY


\* the datetimes an activity may carry: every instant, naive or aware
DateTimes == {naive(i) : i \in Instants} \cup {utcnow(i) : i \in Instants}

\* C16: for every activity instant A and current instant N the classifier
\* (BookingModel.update_status) returns Past when date(A) < date(N), Today
\* when date(A) = date(N) and Upcoming when date(A) > date(N); two pairs of
\* instants with the same calendar dates get the same status; and the
\* status Create computes inline is the classifier's for the same A and N.
C16_Classifier ==
    \A A \in DateTimes, N \in Instants :
        LET s == update_status(A, N)
            dA == A.wall \div DayLen
            dN == N \div DayLen
        IN  /\ (dA < dN) => s = PAST
            /\ (dA = dN) => s = TODAY
            /\ (dA > dN) => s = UPCOMING
            /\ \A A2 \in DateTimes, N2 \in Instants :
                   (A2.wall \div DayLen = dA /\ N2 \div DayLen = dN)
                       => update_status(A2, N2) = s
            /\ initial_status(ensure_aware_datetime(A), utcnow(N)) = s
            /\ \A a \in DOMAIN activities :
                   (activities[a].date_time = A /\ clock = N)
                       => \A b \in BookingsOf(bookings, a) :
                              last.op = "create" /\ last.result = OK /\ last.bid = b
                                  => bookings[b].status = s

\* C16 witness: a booking was created at instant 0 for an activity at the
\* later instant 1 of the same day, and its status is Today.
C16_Witness ==
    /\ last.op = "create" /\ last.result = OK
    /\ clock = 0
    /\ last.bid \in DOMAIN bookings
    /\ activities[last.act].date_time = naive(1)
    /\ date(naive(1)) = date(utcnow(0))
    /\ bookings[last.bid].status = TODAY


\* a step of one of the reads that return bookings
ReadStep == last'.op \in {"list_my", "list_all", "get"}

\* C17: every booking a read (list own, list all, get) returns has, in the
\* rows committed by that read, the status the classifier gives for its
\* activity's date and the current time, whatever status was stored before;
\* a successful get returns the booking asked for.
C17_ReadsRefreshStatus ==
    [][(ReadStep /\ last'.result = OK) =>
        /\ last'.rows \subseteq DOMAIN bookings
        /\ DOMAIN bookings' = DOMAIN bookings
        /\ (last'.op = "get") => last'.rows = {last'.bid}
        /\ \A b \in last'.rows :
              /\ bookings[b].activity_id \in DOMAIN activities
              /\ bookings'[b].status =
                     update_status(activities[bookings[b].activity_id].date_time, clock)
              /\ bookings'[b] = [bookings[b] EXCEPT !.status = bookings'[b].status]]_vars

\* C17 witness: a customer listed its bookings and one of them came back
\* with status Past, which no Create and no Update stores.
C17_Witness ==
    /\ last.op = "list_my" /\ last.result = OK
    /\ \E b \in last.rows :
          /\ b \in DOMAIN bookings
          /\ bookings[b].status = PAST
          /\ update_status(activities[bookings[b].activity_id].date_time, clock) = PAST


StatsStep == last'.op = "stats"

\* the bookings whose classifier status at the current time is st
ClassifiedAs(st) ==
    {b \in DOMAIN bookings :
        update_status(activities[bookings[b].activity_id].date_time, clock) = st}

\* C18: the statistics an administrator gets: total_bookings is the number
\* of booking rows, each per-status count is the number of bookings whose
\* classifier status at the current time is that status, the three counts
\* add up to total_bookings, and total_tickets is the sum of tickets_number
\* over all bookings (0 when there are none).
C18_Stats ==
    [][(StatsStep /\ last'.result = OK) =>
        LET st == last'.stats
        IN  /\ st.total_bookings = Cardinality(DOMAIN bookings)
            /\ st.upcoming_bookings = Cardinality(ClassifiedAs(UPCOMING))
            /\ st.today_bookings = Cardinality(ClassifiedAs(TODAY))
            /\ st.past_bookings = Cardinality(ClassifiedAs(PAST))
            /\ st.upcoming_bookings + st.today_bookings + st.past_bookings
                   = st.total_bookings
            /\ st.total_tickets = SumTickets(bookings, DOMAIN bookings)
            /\ (DOMAIN bookings = {}) => st.total_tickets = 0]_vars

\* C18 witness: statistics over two bookings of one ticket each, both of an
\* activity of an earlier day: two bookings, two Past, two tickets.
C18_Witness ==
    /\ last.op = "stats" /\ last.result = OK
    /\ last.stats.total_bookings = 2
    /\ last.stats.past_bookings = 2
    /\ last.stats.total_tickets = 2


\* C19: a non-administrator never obtains another user's booking data: its
\* requests for the list of all bookings and for the statistics are
\* answered Forbidden, with no row, no count and no write; the list of its
\* own bookings holds only bookings whose user_id is the requester's, and a
\* get answers it only with a booking of its own.
C19_NoForeignData ==
    [][(role(last'.user) = CUSTOMER) =>
        /\ (last'.op \in {"list_all", "stats"}) =>
              /\ last'.result = Forbidden
              /\ last'.rows = {}
              /\ last'.stats = <<>>
              /\ UNCHANGED <<activities, bookings>>
        /\ (last'.op \in {"list_my", "get"}) =>
              \A b \in last'.rows :
                  /\ b \in DOMAIN bookings
                  /\ bookings[b].user_id = last'.user]_vars

\* C19 witness: two customers hold a booking each and one of them listed
\* its own: the list has one booking, its own.
C19_Witness ==
    /\ last.op = "list_my" /\ last.result = OK
    /\ role(last.user) = CUSTOMER
    /\ Cardinality(DOMAIN bookings) = 2
    /\ Cardinality(last.rows) = 1
    /\ \E b \in DOMAIN bookings : bookings[b].user_id # last.user


\* a step of Create, Update or Cancel
MutationStep == last'.op \in {"create", "update", "cancel"}

\* C20: when the commit of a Create, Update or Cancel fails the operation
\* answers StorageFailure and the activities and the bookings are exactly
\* those before the operation; and whatever the outcome, the ledger and the
\* booking rows change together or not at all: a booking row is inserted or
\* deleted, or its tickets_number changed, exactly when the activity's
\* current_capacity changes.
C20_Atomicity ==
    [][MutationStep =>
        /\ (last'.result # OK) => UNCHANGED <<activities, bookings>>
        /\ (last'.op \in {"create", "cancel"}) =>
              ((DOMAIN bookings' # DOMAIN bookings) <=> (activities' # activities))
        /\ (last'.op = "update") =>
              /\ DOMAIN bookings' = DOMAIN bookings
              /\ (\E b \in DOMAIN bookings :
                      bookings'[b].tickets_number # bookings[b].tickets_number)
                  <=> (activities' # activities)]_vars

\* C20 witness: the commit of an Update from one ticket to two failed; the
\* booking still holds one ticket and the activity one spot taken.
C20_Witness ==
    /\ last.op = "update" /\ last.result = StorageFailure /\ last.n = 2
    /\ last.bid \in DOMAIN bookings
    /\ bookings[last.bid].tickets_number = 1
    /\ BookingsOf(bookings, last.act) = {last.bid}
    /\ activities[last.act].max_capacity = 2
    /\ activities[last.act].current_capacity = 1


\* C21: Cancel is safely retryable: a Cancel that repeats the Cancel that
\* just succeeded is answered NotFound and changes nothing, and so is every
\* Cancel of an id whose booking is gone: the tickets of a booking are
\* released from current_capacity once.
C21_CancelRetry ==
    [][CancelStep =>
        /\ (last.op = "cancel" /\ last.result = OK /\ last'.bid = last.bid)
              => /\ last'.result = NotFound
                 /\ UNCHANGED <<activities, bookings>>
        /\ (last'.bid \notin DOMAIN bookings)
              => /\ last'.result = NotFound
                 /\ UNCHANGED <<activities, bookings>>]_vars

\* C21 witness: a Cancel was answered NotFound for an id that was issued,
\* whose activity still exists (so the booking did not go with its
\* activity: a Cancel removed it), while another booking keeps its ticket.
C21_Witness ==
    /\ last.op = "cancel" /\ last.result = NotFound
    /\ last.bid < nextBookId
    /\ last.bid \notin DOMAIN bookings
    /\ 1 \in DOMAIN activities
    /\ Cardinality(BookingsOf(bookings, 1)) = 1
    /\ activities[1].current_capacity = 1


\* C22: referential integrity: after every step every booking's
\* activity_id is the id of an existing activity (there is no booking in
\* the initial state), and the step that deletes an activity removes
\* exactly the bookings that reference it.
C22_ReferentialIntegrity ==
    [][/\ \A b \in DOMAIN bookings' : bookings'[b].activity_id \in DOMAIN activities'
       /\ (last'.op = "delete_activity" /\ last'.result = OK) =>
              /\ last'.act \in DOMAIN activities
              /\ activities' = Drop(activities, {last'.act})
              /\ bookings' = Drop(bookings, BookingsOf(bookings, last'.act))]_vars

\* C22 witness: an activity was deleted after both booking ids had been
\* issued, and no booking is left.
C22_Witness ==
    /\ last.op = "delete_activity" /\ last.result = OK
    /\ last.act \notin DOMAIN activities
    /\ nextBookId = 3
    /\ DOMAIN bookings = {}


\* C23: an activity's max_capacity is fixed at creation: it is greater than
\* 0 and no step, the admin activity update included, changes it while the
\* activity exists.
C23_MaxCapacityFixed ==
    [][/\ \A a \in DOMAIN activities' : activities'[a].max_capacity > 0
       /\ \A a \in DOMAIN activities \cap DOMAIN activities' :
              activities'[a].max_capacity = activities[a].max_capacity]_vars


\* C24: current_capacity is written only by booking Create, Update and
\* Cancel: a step that changes the current_capacity of an activity is one
\* of these three; the admin activity update and toggle, the reads (list,
\* get, statistics, availability check) and the clock keep every activity
\* and its current_capacity; and a new activity starts with
\* current_capacity = 0.
C24_LedgerWriters ==
    [][/\ (\E a \in DOMAIN activities \cap DOMAIN activities' :
              activities'[a].current_capacity # activities[a].current_capacity)
          => MutationStep
       /\ (last'.op \in {"update_activity", "toggle", "list_my", "list_all", "get",
                         "stats", "availability", "tick"})
          => /\ DOMAIN activities' = DOMAIN activities
             /\ \A a \in DOMAIN activities :
                    activities'[a].current_capacity = activities[a].current_capacity
       /\ \A a \in DOMAIN activities' \ DOMAIN activities :
              /\ last'.op = "create_activity"
              /\ activities'[a].current_capacity = 0]_vars

\* C24 witness: an administrator toggled a full activity and its
\* current_capacity is still 2.
C24_Witness ==
    /\ last.op = "toggle" /\ last.result = OK
    /\ last.act \in DOMAIN activities
    /\ ~activities[last.act].is_active
    /\ activities[last.act].current_capacity = 2
    /\ SumTickets(bookings, BookingsOf(bookings, last.act)) = 2


\* C25: a list of one's own bookings, or of all bookings, asked with a
\* status filter s returns bookings of status s only, and returns every
\* booking of the requested scope whose classifier status at the current
\* time is s.
C25_FilterOnRefreshedStatus ==
    [][(/\ last'.op \in {"list_my", "list_all"}
        /\ last'.result = OK
        /\ last'.status # "-")
       => LET s == last'.status
              scope == IF last'.op = "list_my"
                       THEN {b \in DOMAIN bookings : bookings[b].user_id = last'.user}
                       ELSE DOMAIN bookings
          IN  /\ \A b \in last'.rows : bookings'[b].status = s
              /\ \A b \in scope :
                     update_status(activities[bookings[b].activity_id].date_time,
                                   clock) = s
                         => b \in last'.rows]_vars


\* C26: a booking is never created with status Past: the status a
\* successful Create stores is Today or Upcoming, and the activity it
\* books is not before now.
C26_NeverCreatedPast ==
    [][(CreateStep /\ last'.result = OK) =>
        /\ last'.bid \in DOMAIN bookings'
        /\ bookings'[last'.bid].status \in {TODAY, UPCOMING}
        /\ last'.act \in DOMAIN activities
        /\ NotPast(last'.act)]_vars

\* C26 witness: a booking was created at the very instant of its activity
\* (which is then not before now) and its status is Today.
C26_Witness ==
    /\ last.op = "create" /\ last.result = OK
    /\ clock = 1
    /\ last.bid \in DOMAIN bookings
    /\ activities[last.act].date_time = naive(1)
    /\ bookings[last.bid].status = TODAY


\* C27: the temporal guard of Update and Cancel against the classifier, for
\* a booking that exists: classified Upcoming, the request is never
\* rejected as past; classified Past, the request of an owner or an
\* administrator (with a well-formed body) is always rejected as past;
\* classified Today, it is rejected as past exactly when the activity's
\* instant is before now.
C27_GuardVersusClassifier ==
    [][(/\ last'.op \in {"update", "cancel"}
        /\ last'.bid \in DOMAIN bookings
        /\ bookings[last'.bid].activity_id \in DOMAIN activities)
       => LET booking == bookings[last'.bid]
              A == activities[booking.activity_id].date_time
              c == update_status(A, clock)
              authorized == role(last'.user) = ADMIN \/ booking.user_id = last'.user
              rejected == last'.result = TemporalConstraint
          IN  /\ (c = UPCOMING) => ~rejected
              /\ (c = PAST /\ authorized /\ WellFormedStep) => rejected
              /\ (c = TODAY /\ authorized /\ WellFormedStep)
                     => (rejected <=> A.wall < clock)
              /\ rejected => (authorized /\ c \in {TODAY, PAST})]_vars

\* C27 witness: the owner's Cancel of a booking classified Today was
\* rejected as past: the activity started earlier on the same day.
C27_Witness ==
    /\ last.op = "cancel" /\ last.result = TemporalConstraint
    /\ last.bid \in DOMAIN bookings
    /\ bookings[last.bid].user_id = last.user
    /\ update_status(activities[bookings[last.bid].activity_id].date_time, clock) = TODAY
    /\ activities[bookings[last.bid].activity_id].date_time.wall < clock


\* C28: an Update by the owner or an administrator, on an activity that is
\* not past, that lowers the ticket count (1 <= new < old) is never
\* rejected with CapacityExceeded.
C28_ReleaseNeverRejected ==
    [][(/\ UpdateStep
        /\ last'.bid \in DOMAIN bookings
        /\ bookings[last'.bid].activity_id \in DOMAIN activities
        /\ NotPast(bookings[last'.bid].activity_id)
        /\ (role(last'.user) = ADMIN \/ bookings[last'.bid].user_id = last'.user)
        /\ last'.n # NONE
        /\ 1 <= last'.n
        /\ last'.n < bookings[last'.bid].tickets_number)
       => last'.result # CapacityExceeded]_vars


\* C29: the availability check agrees with Create for customers: when a
\* customer's check of n >= 1 tickets on an existing activity is followed
\* at once, at the same time, by that customer's Create of n tickets on
\* that activity, the check answered available = true exactly when the
\* Create is not rejected (it succeeds unless the store fails); and the
\* check changes no row, no counter and not the clock.
C29_AvailabilityAgreesWithCreate ==
    [][/\ (last'.op = "availability")
              => UNCHANGED <<activities, bookings, nextActId, nextBookId, clock, worker>>
       /\ (/\ last.op = "availability"
           /\ last.result = OK
           /\ role(last.user) = CUSTOMER
           /\ last.n >= 1
           /\ CreateStep
           /\ last'.user = last.user
           /\ last'.act = last.act
           /\ last'.n = last.n)
          => (last.available <=> last'.result \in {OK, StorageFailure})]_vars

\* C29 witness: a customer asked whether two tickets are available on an
\* empty activity of capacity two, was answered yes, and a booking id is
\* free for the Create that follows.
C29_Witness ==
    /\ last.op = "availability" /\ last.result = OK /\ last.available
    /\ role(last.user) = CUSTOMER
    /\ last.n = 2
    /\ activities[last.act].max_capacity = 2
    /\ activities[last.act].current_capacity = 0
    /\ nextBookId <= MaxBookings


\* the place of a status along Upcoming -> Today -> Past
StatusRank(s) == IF s = UPCOMING THEN 0 ELSE IF s = TODAY THEN 1 ELSE 2

\* how far along that order a booking of an activity dated A is at time N
DateRank(A, N) ==
    IF A.wall \div DayLen < N \div DayLen THEN 2
    ELSE IF A.wall \div DayLen = N \div DayLen THEN 1
    ELSE 0

\* C30: while the date of its activity is not edited, the stored status of
\* a booking only moves forward along Upcoming -> Today -> Past: a booking
\* is created with a status not ahead of its activity's date, and a step
\* that leaves the date alone and finds the stored status not ahead of the
\* date stores a status that is not behind the stored one and again not
\* ahead of the date; so after Today no refresh stores Upcoming and after
\* Past every refresh stores Past, as long as the row exists.
C30_StatusMovesForward ==
    [][/\ \A b \in DOMAIN bookings \cap DOMAIN bookings' :
            LET a == bookings[b].activity_id
            IN  (/\ a \in DOMAIN activities
                 /\ a \in DOMAIN activities'
                 /\ bookings'[b].activity_id = a
                 /\ activities'[a].date_time = activities[a].date_time
                 /\ StatusRank(bookings[b].status)
                        <= DateRank(activities[a].date_time, clock))
                => /\ StatusRank(bookings[b].status) <= StatusRank(bookings'[b].status)
                   /\ StatusRank(bookings'[b].status)
                          <= DateRank(activities'[a].date_time, clock')
       /\ \A b \in DOMAIN bookings' \ DOMAIN bookings :
            LET a == bookings'[b].activity_id
            IN  /\ a \in DOMAIN activities'
                /\ StatusRank(bookings'[b].status)
                       <= DateRank(activities'[a].date_time, clock')
       /\ clock' >= clock]_vars

\* C30 witness: after the clock has advanced, a get has refreshed a booking
\* and its stored status is Past, one that Create never stores.
C30_Witness ==
    /\ last.op = "get" /\ last.result = OK
    /\ clock > 0
    /\ last.bid \in DOMAIN bookings
    /\ bookings[last.bid].status = PAST
    /\ DateRank(activities[bookings[last.bid].activity_id].date_time, clock) = 2

====
